---- MODULE Spec2Model ----
(***************************************************************************)
(* OAuth2 "web server" flow of src/oauth2/server.js: the authorization     *)
(* endpoint (authorize), the grant issuer (send_grant), the grant redeemer *)
(* (valid_grant) and the token endpoint (token_endpoint), over a Client    *)
(* store, a Grant store and the wall clock.                                *)
(*                                                                         *)
(* Strings are sequences of one-character strings, so that split('|'),     *)
(* slice(6) and '+' are computed and not assumed.  The empty sequence is   *)
(* the empty (or missing) string: both are falsy in the source's tests.    *)
(*                                                                         *)
(* Every request is handled by callbacks: one action is one callback, the  *)
(* synchronous code between two store operations.  A store operation may   *)
(* complete or fail; the failure path is the one the source wires up.      *)
(***************************************************************************)
EXTENDS Integers, Sequences, FiniteSets, TLC

\* The fields of the records of this module; every record lists its fields
\* in this order.
FieldOrder ==
  [ access_token |-> 1, at |-> 2, client_data |-> 3, client_id |-> 4,
    client_name |-> 5, client_secret |-> 6, code |-> 7, form |-> 8,
    grant |-> 9, grant_type |-> 10, header |-> 11, id |-> 12,
    id_code |-> 13, kind |-> 14, late |-> 15, login |-> 16, name |-> 17,
    ops |-> 18, out |-> 19, params |-> 20, pc |-> 21, redeemer |-> 22,
    redirect_uri |-> 23, resp |-> 24, response_type |-> 25,
    secret |-> 26, state |-> 27, status |-> 28, time |-> 29,
    token |-> 30, uri |-> 31, user_id |-> 32 ]

VARIABLES
  now,      \* Date.now(), in milliseconds
  grants,   \* the Grant store: the set of stored Grant records
  nextId,   \* the next id the Grant store assigns on save
  issued,   \* history: every Grant record the store ever saved
  redeemed, \* history: ids of the Grants whose redemption returned a Token
  sg,       \* send_grant invocations, by slot
  tok,      \* token_endpoint requests, by slot
  az        \* authorize requests, by slot

vars == <<now, grants, nextId, issued, redeemed, sg, tok, az>>

----------------------------------------------------------------------------
\* Bounds of the model.

\* Number of Grants the issuer may create (send_grant slots).
MaxGrants == 1
\* Number of token requests in flight together.
NumTokenReqs == 2
\* Number of authorization requests.
NumAuthzReqs == 1
\* Length of the random code (randomString(128) in the source, scaled down).
CodeLen == 1
\* Longest user id and client id a Token is built from.
MaxIdLen == 2

\* The freshness window in milliseconds (Date.now() - 60000).
Window == 60000
\* Length of the prefix removed from the Authorization header: slice(6).
BasicPrefixLen == 6

----------------------------------------------------------------------------
\* Strings.

Empty == << >>
Delim == "|"

\* The position of the first ch in s, or 0.
IndexOf(s, ch) ==
  IF \E i \in 1..Len(s) : s[i] = ch
  THEN CHOOSE i \in 1..Len(s) : s[i] = ch /\ \A j \in 1..(i-1) : s[j] # ch
  ELSE 0

\* String.prototype.split on a one-character separator: the sequence of parts.
RECURSIVE Split(_, _)
Split(s, ch) ==
  LET i == IndexOf(s, ch) IN
  IF i = 0 THEN << s >>
  ELSE << SubSeq(s, 1, i - 1) >> \o Split(SubSeq(s, i + 1, Len(s)), ch)

\* String.prototype.slice(n), n >= 0.
Slice(s, n) == SubSeq(s, n + 1, Len(s))

\* All strings of length n over the characters chars.
RECURSIVE StringsOfLen(_, _)
StringsOfLen(chars, n) ==
  IF n = 0 THEN { Empty }
  ELSE { << c >> \o s : c \in chars, s \in StringsOfLen(chars, n - 1) }

----------------------------------------------------------------------------
\* The Client store (read-only to this code).

Client(cid, csecret, curi, cname) ==
  [id |-> cid, name |-> cname, redirect_uri |-> curi, secret |-> csecret]

Clients == { Client(<<"A">>, <<"x">>, <<"p">>, <<"n">>),
             Client(<<"B">>, <<"y">>, <<"q">>, <<"m">>) }

\* What a lookup yields when no record has the id (falsy in the source).
NoClient == Client(Empty, Empty, Empty, Empty)

\* R.Client.get({ids: id}, callback): the record with this id, if any.
ClientGet(cid) ==
  IF \E c \in Clients : c.id = cid
  THEN CHOOSE c \in Clients : c.id = cid
  ELSE NoClient

UnknownClientId == <<"Z">>
Users == { <<"u">>, <<"v">> }

----------------------------------------------------------------------------
\* Responses.

\* No response written yet.
NoResp == [id |-> "", kind |-> "none", status |-> 0, token |-> Empty]

\* oauth_error(res, type, id): status 400 and the error id in the message.
oauth_error(type, eid) ==
  [id |-> eid, kind |-> type, status |-> 400, token |-> Empty]

\* unknown_error(res, err): tools.server_error, a generic server error.
unknown_error == [id |-> "", kind |-> "unknown_error", status |-> 500,
                  token |-> Empty]

\* res.writeHead(200, ...); res.end(JSON.stringify(token)).
TokenResponse(tk) ==
  [id |-> "", kind |-> "token", status |-> 200, token |-> tk.access_token]

\* res.writeHead(501, ...); res.end('Only code request type supported ...').
NotImplemented == [id |-> "", kind |-> "not_implemented", status |-> 501,
                   token |-> Empty]

\* authentication.login(req, res, client_data): the login flow takes over.
LoginInvoked == [id |-> "", kind |-> "login", status |-> 0, token |-> Empty]

----------------------------------------------------------------------------
\* Tokens and authorization codes.

\* A token with the two ids in the other order.
create_access_token_swapped(uid, cid) == cid \o << "," >> \o uid

\* create_access_token(user_id, client_id): user_id + ',' + client_id.
create_access_token(uid, cid) == uid \o << "," >> \o cid

\* A code that leaves the Grant's id out.
AuthCodeWithoutId(grant) == grant.code

\* A code joined with another character than the one the redeemer splits on.
AuthCodeCommaJoined(grant) == grant.id \o << "," >> \o grant.code

\* grant.id + '|' + grant.code, the code sent to the client.
AuthCode(grant) == grant.id \o << Delim >> \o grant.code

\* randomString(n): the strings it may return.
RandomChars == { "a" }
randomString(n) == StringsOfLen(RandomChars, n)

\* A Grant record; id is Empty until the store assigns one on save.
Grant(gid, cid, uid, secret_part, t) ==
  [client_id |-> cid, code |-> secret_part, id |-> gid, time |-> t,
   user_id |-> uid]

NoGrant == Grant(Empty, Empty, Empty, Empty, 0)

\* The id the store assigns to the n-th Grant it saves.
StoreId(n) == << ToString(n) >>

\* A delete that reports success and removes nothing.
GrantDeleteKeeps(store, g) == store

\* grant.delete_(callback, fallback): the store without the record that has
\* this Grant's id.
GrantDelete(store, g) == { x \in store : x.id # g.id }

\* R.Grant.get({ids: id}, callback): the stored record with this id, if any.
GrantGet(gid) ==
  IF \E g \in grants : g.id = gid
  THEN CHOOSE g \in grants : g.id = gid
  ELSE NoGrant

----------------------------------------------------------------------------
\* The clock.  Date.now() only moves forward; the instants are the ones
\* around the edge of the freshness window of a Grant issued at 0.

Instants == { 0, Window - 1, Window, Window + 1 }

Tick ==
  /\ \E t \in Instants : t > now /\ now' = t
  /\ UNCHANGED <<grants, nextId, issued, redeemed, sg, tok, az>>

----------------------------------------------------------------------------
\* send_grant(res, R, user_id, client_data): the Grant Issuer.

SendGrantSlots == 1..MaxGrants

ClientData(cid, cname, curi, st) ==
  [client_id |-> cid, client_name |-> cname, redirect_uri |-> curi, state |-> st]

NoClientData == ClientData(Empty, Empty, Empty, Empty)

\* What send_grant answers: nothing yet, a redirect, or the unknown error.
NoRedirect == [code |-> Empty, kind |-> "none", state |-> Empty, uri |-> Empty]

\* tools.redirect(res, redirect_uri + '?' + querystring.stringify(qs)):
\* qs holds the code and, when client_data.state is truthy, the state.
Redirect(cdata, authcode) ==
  [code |-> authcode, kind |-> "redirect", state |-> cdata.state,
   uri |-> cdata.redirect_uri]

SendGrantError == [code |-> Empty, kind |-> "unknown_error", state |-> Empty,
                   uri |-> Empty]

SgIdle == [client_data |-> NoClientData, grant |-> NoGrant,
           out |-> NoRedirect, pc |-> "idle"]

\* new R.Grant({...}); grant.save(...): the record is built and the save issued.
SendGrant(s, uid, cdata) ==
  /\ sg[s].pc = "idle"
  /\ \E rnd \in randomString(CodeLen) :
       sg' = [sg EXCEPT ![s] =
                [client_data |-> cdata,
                 grant |-> Grant(Empty, cdata.client_id, uid, rnd, now),
                 out |-> NoRedirect, pc |-> "saving"]]
  /\ UNCHANGED <<now, grants, nextId, issued, redeemed, tok, az>>

\* The store saves the record and assigns its id.
GrantStored(s) ==
  /\ sg[s].pc = "saving"
  /\ LET g == [sg[s].grant EXCEPT !.id = StoreId(nextId)] IN
       /\ grants' = grants \cup { g }
       /\ issued' = issued \cup { g }
       /\ sg' = [sg EXCEPT ![s].pc = "saved", ![s].grant = g]
  /\ nextId' = nextId + 1
  /\ UNCHANGED <<now, redeemed, tok, az>>

\* The save's callback: redirect the user agent with the code.
GrantSaved(s) ==
  /\ sg[s].pc = "saved"
  /\ sg' = [sg EXCEPT ![s].pc = "done",
                      ![s].out = Redirect(sg[s].client_data, AuthCode(sg[s].grant))]
  /\ UNCHANGED <<now, grants, nextId, issued, redeemed, tok, az>>

\* The save's fallback: unknown_error(res, err); nothing was stored.
GrantSaveFailed(s) ==
  /\ sg[s].pc = "saving"
  /\ sg' = [sg EXCEPT ![s].pc = "done", ![s].out = SendGrantError]
  /\ UNCHANGED <<now, grants, nextId, issued, redeemed, tok, az>>

----------------------------------------------------------------------------
\* valid_grant(R, data, callback, fallback): the Grant Redeemer's tests.

\* data.code.split('|').
IdCode(authcode) == Split(authcode, Delim)

\* An arity test that lets a code with more than two parts through.
BadArityShortOnly(id_code) == Len(id_code) < 2

\* The arity test: id_code.length != 2.
BadArity(id_code) == Len(id_code) # 2

\* The window closed one millisecond early: grant.time <= minute_ago.
DeprecatedAtEdge(g, t) == g.time <= t - Window

\* grant.time < minute_ago, with minute_ago = Date.now() - 60000.
Deprecated(g, t) == g.time < t - Window

\* The lookup's test without the comparison of the client ids.
GrantRejectedAnyClient(g, data_client_id, secret_part, t) ==
  \/ g = NoGrant
  \/ g.time < t - Window
  \/ g.code # secret_part

\* The test in the lookup's callback: callback(null) when it holds.
GrantRejected(g, data_client_id, secret_part, t) ==
  \/ g = NoGrant
  \/ Deprecated(g, t)
  \/ g.client_id # data_client_id
  \/ g.code # secret_part

----------------------------------------------------------------------------
\* token_endpoint(req, res): the synchronous checks of a token request.

AuthorizationCode == << "authorization_code" >>

OatParams(gt, cid, authcode, curi, csecret) ==
  [client_id |-> cid, client_secret |-> csecret, code |-> authcode,
   grant_type |-> gt, redirect_uri |-> curi]

NoParams == OatParams(Empty, Empty, Empty, Empty, Empty)

\* PARAMS.oat.mandatory.forEach: some mandatory field is missing or empty.
OatMissing(prm) ==
  \/ prm.grant_type = Empty
  \/ prm.client_id = Empty
  \/ prm.code = Empty
  \/ prm.redirect_uri = Empty

\* A test that only catches the secret given by neither.
SecretNotOnceNeitherOnly(hdr, csecret) == hdr = Empty /\ csecret = Empty

\* Lines 172-179: the secret is given by the header and the field, or by
\* neither.
SecretNotOnce(hdr, csecret) ==
  IF hdr # Empty THEN csecret # Empty ELSE csecret = Empty

\* The secret the request is authenticated with: secret.slice(6) of the
\* header when there is one, the client_secret field otherwise.
ResolveSecret(hdr, csecret) ==
  IF hdr # Empty THEN Slice(hdr, BasicPrefixLen) ELSE csecret

\* The synchronous part with the grant_type test moved before the test of the
\* mandatory fields.
OatSyncErrorTypeFirst(frm, prm, hdr) ==
  IF frm = "none" THEN "invalid_request"
  ELSE IF frm = "error" THEN "invalid_request"
  ELSE IF prm.grant_type # << "authorization_code" >> THEN "unsupported_grant_type"
  ELSE IF OatMissing(prm) THEN "invalid_request"
  ELSE IF SecretNotOnce(hdr, prm.client_secret) THEN "invalid_request"
  ELSE ""

\* The error the synchronous part answers with, or "" when the request goes
\* on to the Client store.  form is what req.form is and yields.
OatSyncError(frm, prm, hdr) ==
  IF frm = "none" THEN "invalid_request"
  ELSE IF frm = "error" THEN "invalid_request"
  ELSE IF OatMissing(prm) THEN "invalid_request"
  ELSE IF prm.grant_type # AuthorizationCode THEN "unsupported_grant_type"
  ELSE IF SecretNotOnce(hdr, prm.client_secret) THEN "invalid_request"
  ELSE ""

\* The test of the client without the comparison of the secrets.
ClientRejectedNoSecretTest(cl, csecret) == cl = NoClient

\* client.secret != params.client_secret, or no client.
ClientRejected(cl, csecret) ==
  cl = NoClient \/ cl.secret # csecret

----------------------------------------------------------------------------
\* A token request, callback by callback.

TokenReqs == 1..NumTokenReqs

\* redeemer: what valid_grant has done for this request: "none" (not
\* called), "lookup", "delete" (waiting for the store), "invalid"
\* (callback(null)), "token" (callback(token)), "fallback" (fallback(err)),
\* "lost" (the store failed and no fallback was given to it).
\* params, header: the request as received.  secret: params.client_secret
\* as line 175 leaves it.  client_id: data.client_id.  id_code: the split
\* code.  grant: what the lookup yielded.  ops: the store operations the
\* request has issued.  late: valid_grant was called after a redemption of
\* the presented code had returned a Token.
TokIdle ==
  [at |-> 0, client_id |-> Empty, form |-> "ok", grant |-> NoGrant,
   header |-> Empty, id_code |-> << >>, late |-> FALSE, ops |-> {},
   params |-> NoParams, pc |-> "idle", redeemer |-> "none", resp |-> NoResp,
   secret |-> Empty]

\* Lines 154-182: req.form, the mandatory fields, grant_type, the secret,
\* then R.Client.get is issued.
TokenRequest(p, frm, prm, hdr) ==
  /\ tok[p].pc = "idle"
  /\ LET err == OatSyncError(frm, prm, hdr)
         given == IF frm = "ok" THEN prm ELSE NoParams IN
       IF err # ""
       THEN tok' = [tok EXCEPT ![p] =
                      [TokIdle EXCEPT !.pc = "done", !.params = given,
                                      !.header = hdr, !.form = frm,
                                      !.resp = oauth_error("oat", err)]]
       ELSE tok' = [tok EXCEPT ![p] =
                      [TokIdle EXCEPT
                         !.pc = "client_get",
                         !.params = given, !.header = hdr, !.form = frm,
                         !.secret = ResolveSecret(hdr, prm.client_secret),
                         !.ops = {"Client.get"}]]
  /\ UNCHANGED <<now, grants, nextId, issued, redeemed, sg, az>>

\* Lines 182-194 and 123-125: the Client lookup's callback; the secret and
\* redirect_uri tests; valid_grant splits the code and issues R.Grant.get.
TokenClientGot(p) ==
  /\ tok[p].pc = "client_get"
  /\ LET r == tok[p]
         client == ClientGet(r.params.client_id)
         parts == IdCode(r.params.code)
         islate == \E g \in issued : g.id \in redeemed /\ AuthCode(g) = r.params.code
     IN
       IF ClientRejected(client, r.secret)
       THEN tok' = [tok EXCEPT ![p].pc = "done",
                               ![p].resp = oauth_error("oat", "invalid_client")]
       ELSE IF client.redirect_uri # r.params.redirect_uri
       THEN tok' = [tok EXCEPT ![p].pc = "done",
                               ![p].resp = oauth_error("oat", "invalid_grant")]
       ELSE IF BadArity(parts)
       THEN tok' = [tok EXCEPT ![p].pc = "done", ![p].client_id = client.id,
                               ![p].id_code = parts, ![p].late = islate,
                               ![p].redeemer = "invalid",
                               ![p].resp = oauth_error("oat", "invalid_grant")]
       ELSE tok' = [tok EXCEPT ![p].pc = "grant_get", ![p].client_id = client.id,
                               ![p].id_code = parts, ![p].late = islate,
                               ![p].redeemer = "lookup",
                               ![p].ops = @ \cup {"Grant.get"}]
  /\ UNCHANGED <<now, grants, nextId, issued, redeemed, sg, az>>

\* Line 200: the Client lookup's fallback.
TokenClientFailed(p) ==
  /\ tok[p].pc = "client_get"
  /\ tok' = [tok EXCEPT ![p].pc = "done", ![p].resp = unknown_error]
  /\ UNCHANGED <<now, grants, nextId, issued, redeemed, sg, az>>

\* Lines 125-131: the Grant lookup's callback; callback(null) or
\* grant.delete_ is issued.  at: Date.now() as this callback read it.
TokenGrantGot(p) ==
  /\ tok[p].pc = "grant_get"
  /\ LET r == tok[p]
         found == GrantGet(r.id_code[1])
     IN
       IF GrantRejected(found, r.client_id, r.id_code[2], now)
       THEN tok' = [tok EXCEPT ![p].pc = "done", ![p].grant = found, ![p].at = now,
                               ![p].redeemer = "invalid",
                               ![p].resp = oauth_error("oat", "invalid_grant")]
       ELSE tok' = [tok EXCEPT ![p].pc = "grant_delete", ![p].grant = found,
                               ![p].at = now, ![p].redeemer = "delete",
                               ![p].ops = @ \cup {"Grant.delete"}]
  /\ UNCHANGED <<now, grants, nextId, issued, redeemed, sg, az>>

\* Line 125: R.Grant.get is given a callback and no fallback, so a failed
\* lookup reaches neither callback nor fallback: no response is written.
TokenGrantGetFailed(p) ==
  /\ tok[p].pc = "grant_get"
  /\ tok' = [tok EXCEPT ![p].pc = "hung", ![p].redeemer = "lost"]
  /\ UNCHANGED <<now, grants, nextId, issued, redeemed, sg, az>>

\* Lines 131-137 and 194-198: the delete's callback.  The store removes the
\* record with the Grant's id; whether deleting a record that another request
\* has removed meanwhile succeeds or fails is the store's choice, and both
\* callbacks are enabled.  The Token is built and answered with status 200.
TokenGrantDeleted(p) ==
  /\ tok[p].pc = "grant_delete"
  /\ LET held == tok[p].grant
         tk == [access_token |->
                  create_access_token(held.user_id, held.client_id)]
     IN
       /\ grants' = GrantDelete(grants, held)
       /\ redeemed' = redeemed \cup { held.id }
       /\ tok' = [tok EXCEPT ![p].pc = "done", ![p].redeemer = "token",
                             ![p].resp = TokenResponse(tk)]
  /\ UNCHANGED <<now, nextId, issued, sg, az>>

\* Lines 138 and 199: the delete's fallback: unknown_error(res, err).
TokenGrantDeleteFailed(p) ==
  /\ tok[p].pc = "grant_delete"
  /\ tok' = [tok EXCEPT ![p].pc = "done", ![p].redeemer = "fallback",
                        ![p].resp = unknown_error]
  /\ UNCHANGED <<now, grants, nextId, issued, redeemed, sg, az>>

TokenStep(p) ==
  \/ TokenClientGot(p)
  \/ TokenClientFailed(p)
  \/ TokenGrantGot(p)
  \/ TokenGrantGetFailed(p)
  \/ TokenGrantDeleted(p)
  \/ TokenGrantDeleteFailed(p)

----------------------------------------------------------------------------
\* authorize(params, req, res): the authorization endpoint.

AuthzReqs == 1..NumAuthzReqs

\* PARAMS.eua.response_types.
ResponseTypes == { <<"token">>, <<"code">>, <<"code_and_token">> }

EuaParams(cid, rtype, curi, st) ==
  [client_id |-> cid, redirect_uri |-> curi, response_type |-> rtype,
   state |-> st]

NoEuaParams == EuaParams(Empty, Empty, Empty, Empty)

\* PARAMS.eua.mandatory.forEach: some mandatory field is missing or empty.
EuaMissing(prm) ==
  \/ prm.client_id = Empty
  \/ prm.response_type = Empty
  \/ prm.redirect_uri = Empty

\* Lines 229-233: what is written before the Client lookup is issued.
WrittenBeforeLookup(rtype) ==
  IF rtype # <<"code">> THEN << NotImplemented >> ELSE << >>

\* The callback without the test for a missing client.
EuaClientErrorNoClientTest(cl, prm) ==
  IF cl.redirect_uri # prm.redirect_uri THEN "redirect_uri_mismatch" ELSE ""

\* The callback without the comparison of the redirect_uri.
EuaClientErrorNoUriTest(cl, prm) ==
  IF cl = NoClient THEN "invalid_client" ELSE ""

\* Lines 237-240: the error the Client lookup's callback reports, or "".
EuaClientError(cl, prm) ==
  IF cl = NoClient THEN "invalid_client"
  ELSE IF cl.redirect_uri # prm.redirect_uri THEN "redirect_uri_mismatch"
  ELSE ""

\* out: the responses written for the request, in order.  login: the
\* client_data handed to authentication.login.  ops: store operations issued.
AzIdle == [login |-> NoClientData, ops |-> {}, out |-> << >>,
           params |-> NoEuaParams, pc |-> "idle"]

\* Lines 217-236: the synchronous part, up to R.Client.get.
Authorize(a, prm) ==
  /\ az[a].pc = "idle"
  /\ IF EuaMissing(prm)
     THEN az' = [az EXCEPT ![a] =
                   [AzIdle EXCEPT !.pc = "done", !.params = prm,
                                  !.out = << oauth_error("eua", "invalid_request") >>]]
     ELSE IF prm.response_type \notin ResponseTypes
     THEN az' = [az EXCEPT ![a] =
                   [AzIdle EXCEPT !.pc = "done", !.params = prm,
                                  !.out = << oauth_error("eua", "unsupported_response_type") >>]]
     ELSE az' = [az EXCEPT ![a] =
                   [AzIdle EXCEPT !.pc = "client_get", !.params = prm,
                                  !.out = WrittenBeforeLookup(prm.response_type),
                                  !.ops = {"Client.get"}]]
  /\ UNCHANGED <<now, grants, nextId, issued, redeemed, sg, tok>>

\* Lines 236-247: the Client lookup's callback.
AuthorizeClientGot(a) ==
  /\ az[a].pc = "client_get"
  /\ LET r == az[a]
         client == ClientGet(r.params.client_id)
         err == EuaClientError(client, r.params)
     IN
       IF err # ""
       THEN az' = [az EXCEPT ![a].pc = "done",
                             ![a].out = Append(@, oauth_error("eua", err))]
       ELSE az' = [az EXCEPT ![a].pc = "done",
                             ![a].out = Append(@, LoginInvoked),
                             ![a].login = ClientData(client.id, client.name,
                                                     r.params.redirect_uri,
                                                     r.params.state)]
  /\ UNCHANGED <<now, grants, nextId, issued, redeemed, sg, tok>>

\* Lines 248-250: the Client lookup's fallback.
AuthorizeClientFailed(a) ==
  /\ az[a].pc = "client_get"
  /\ az' = [az EXCEPT ![a].pc = "done", ![a].out = Append(@, unknown_error)]
  /\ UNCHANGED <<now, grants, nextId, issued, redeemed, sg, tok>>

\* The client_data the login flow has been handed so far.
Logins == { az[a].login : a \in { b \in AuthzReqs : az[b].login # NoClientData } }

----------------------------------------------------------------------------
\* The requests the environment sends.

\* The codes a token request may present: the codes of the Grants the store
\* may hold, a code with a wrong secret part, one with an id the store never
\* assigns, one without delimiter and two with two delimiters.
GrantIds == { StoreId(n) : n \in 1..MaxGrants }
GuessChars == RandomChars \cup { "b" }
WellFormedCodes ==
  { id \o << Delim >> \o c : id \in GrantIds, c \in randomString(CodeLen) }
  \cup { StoreId(1) \o << Delim >> \o c : c \in StringsOfLen(GuessChars, CodeLen) }
MalformedCodes ==
  { StoreId(1) \o c : c \in randomString(CodeLen) }
  \cup { StoreId(1) \o << Delim >> \o c \o << Delim >> : c \in randomString(CodeLen) }
  \cup { StoreId(1) \o << Delim, Delim >> \o c : c \in randomString(CodeLen) }
PresentedCodes == WellFormedCodes \cup MalformedCodes

ClientIds == { c.id : c \in Clients } \cup { UnknownClientId }
Secrets == { c.secret : c \in Clients }
RedirectUris == { c.redirect_uri : c \in Clients }
Basic == << "B", "a", "s", "i", "c", " " >>
OatHeaders == { Basic \o c.secret : c \in { ClientGet(<<"A">>) } }

\* The client_data the authorization endpoint hands over for the registered
\* clients (lines 242-247), with no state.
RegisteredLogins ==
  { ClientData(c.id, c.name, c.redirect_uri, Empty) : c \in Clients }

\* Slots are taken in order.
SgFree(s) == \A r \in 1..(s - 1) : sg[r].pc # "idle"
TokFree(p) == \A q \in 1..(p - 1) : tok[q].pc # "idle"

----------------------------------------------------------------------------
Init ==
  /\ now = 0
  /\ grants = {}
  /\ nextId = 1
  /\ issued = {}
  /\ redeemed = {}
  /\ sg = [s \in SendGrantSlots |-> SgIdle]
  /\ tok = [p \in TokenReqs |-> TokIdle]
  /\ az = [a \in AuthzReqs |-> AzIdle]

\* The issuer's callbacks.
SendGrantStep(s) ==
  \/ GrantStored(s)
  \/ GrantSaved(s)
  \/ GrantSaveFailed(s)

\* The issuer and concurrent redemptions: every token request is from a
\* registered client that authenticates itself and gives its redirect_uri,
\* and presents any code.
Next ==
  \/ Tick
  \/ \E s \in SendGrantSlots :
       \/ \E u \in Users, d \in RegisteredLogins : SgFree(s) /\ SendGrant(s, u, d)
       \/ SendGrantStep(s)
  \/ \E p \in TokenReqs :
       \/ \E c \in Clients, k \in PresentedCodes :
            /\ TokFree(p)
            /\ TokenRequest(p, "ok",
                 OatParams(AuthorizationCode, c.id, k, c.redirect_uri, c.secret),
                 Empty)
       \/ TokenStep(p)

Spec == Init /\ [][Next]_vars

\* The token endpoint alone: one request with any fields, with or without
\* the Authorization header, or with no usable form, against the Grants the
\* issuer has stored.
NextOat ==
  \/ Tick
  \/ \E u \in Users, d \in RegisteredLogins : SendGrant(1, u, d)
  \/ SendGrantStep(1)
  \/ \E f \in {"none", "error"} : TokenRequest(1, f, NoParams, Empty)
  \/ \E gt \in {Empty, AuthorizationCode, <<"password">>},
        c \in ClientIds \cup {Empty}, k \in PresentedCodes \cup {Empty},
        u \in RedirectUris \cup {Empty}, x \in Secrets \cup {Empty},
        h \in OatHeaders \cup {Empty} :
       TokenRequest(1, "ok", OatParams(gt, c, k, u, x), h)
  \/ TokenStep(1)

SpecOat == Init /\ [][NextOat]_vars

\* The same, with every store operation of the request eventually completing
\* or failing: a callback of a pending operation is eventually run.
SpecOatFair == Init /\ [][NextOat]_vars /\ WF_vars(TokenStep(1))

\* The authorization endpoint with any fields, and the issuer called by the
\* login flow with the client_data the endpoint handed to it.
NextEua ==
  \/ Tick
  \/ \E a \in AuthzReqs :
       \/ \E c \in ClientIds \cup {Empty},
             t \in ResponseTypes \cup {Empty, <<"bogus">>},
             u \in RedirectUris \cup {Empty}, st \in {Empty, <<"s">>} :
            Authorize(a, EuaParams(c, t, u, st))
       \/ AuthorizeClientGot(a)
       \/ AuthorizeClientFailed(a)
  \/ \E s \in SendGrantSlots :
       \/ \E u \in Users, d \in Logins : SgFree(s) /\ SendGrant(s, u, d)
       \/ SendGrantStep(s)

SpecEua == Init /\ [][NextEua]_vars

\* The codes of the redirects the issuer has sent so far.
CodesSent ==
  { sg[s].out.code : s \in { r \in SendGrantSlots : sg[r].out.kind = "redirect" } }

\* The codes sent, with the part after the first delimiter replaced by a
\* guess that randomString does not return.
CodesForged ==
  { IdCode(k)[1] \o << Delim >> \o c :
      k \in CodesSent, c \in StringsOfLen(GuessChars \ RandomChars, CodeLen) }

\* The whole flow: the issuer redirects the user agent with a code, and the
\* registered clients, authenticating themselves, present to the token
\* endpoint the codes that were sent, or forgeries of them.
NextFlow ==
  \/ Tick
  \/ \E s \in SendGrantSlots :
       \/ \E u \in Users, d \in RegisteredLogins : SgFree(s) /\ SendGrant(s, u, d)
       \/ SendGrantStep(s)
  \/ \E p \in TokenReqs :
       \/ \E c \in Clients, k \in CodesSent \cup CodesForged :
            /\ TokFree(p)
            /\ TokenRequest(p, "ok",
                 OatParams(AuthorizationCode, c.id, k, c.redirect_uri, c.secret),
                 Empty)
       \/ TokenStep(p)

SpecFlow == Init /\ [][NextFlow]_vars

\* The whole server: authorization requests, the issuer called by the login
\* flow with the client_data the authorization endpoint handed to it, and a
\* token request of any registered client id with any secret, by the field,
\* the header, both or neither, any redirect_uri, and a code that was sent
\* or a forgery of one.
NextAll ==
  \/ Tick
  \/ \E a \in AuthzReqs :
       \/ \E c \in { ClientGet(<<"A">>).id, UnknownClientId },
             t \in { <<"code">>, <<"token">> } :
            Authorize(a, EuaParams(c, t, ClientGet(<<"A">>).redirect_uri, Empty))
       \/ AuthorizeClientGot(a)
       \/ AuthorizeClientFailed(a)
  \/ \E s \in SendGrantSlots :
       \/ \E u \in Users, d \in Logins : SgFree(s) /\ SendGrant(s, u, d)
       \/ SendGrantStep(s)
  \/ \E c \in Clients, k \in CodesSent \cup CodesForged,
        u \in RedirectUris, x \in Secrets \cup {Empty},
        h \in OatHeaders \cup {Empty} :
       TokenRequest(1, "ok", OatParams(AuthorizationCode, c.id, k, u, x), h)
  \/ TokenStep(1)

SpecAll == Init /\ [][NextAll]_vars

\* create_access_token on its own: every token request is about to run the
\* callback of its delete (lines 131-137), for a Grant whose user id and
\* client id are any strings of letters and ',' up to MaxIdLen characters.
IdChars == { "a", "," }
Ids == UNION { StringsOfLen(IdChars, n) : n \in 1..MaxIdLen }

Deleting(p, uid, cid) ==
  [TokIdle EXCEPT
     !.client_id = cid,
     !.grant = Grant(StoreId(p), cid, uid, << "a" >>, 0),
     !.id_code = << StoreId(p), << "a" >> >>,
     !.ops = {"Client.get", "Grant.get", "Grant.delete"},
     !.params = OatParams(AuthorizationCode, cid,
                          StoreId(p) \o << Delim >> \o << "a" >>,
                          << "p" >>, << "x" >>),
     !.pc = "grant_delete",
     !.redeemer = "delete",
     !.secret = << "x" >>]

InitTokens ==
  /\ now = 0
  /\ nextId = NumTokenReqs + 1
  /\ redeemed = {}
  /\ sg = [s \in SendGrantSlots |-> SgIdle]
  /\ az = [a \in AuthzReqs |-> AzIdle]
  /\ \E us \in [TokenReqs -> Ids], cs \in [TokenReqs -> Ids] :
       tok = [p \in TokenReqs |-> Deleting(p, us[p], cs[p])]
  /\ grants = { tok[p].grant : p \in TokenReqs }
  /\ issued = grants

NextTokens == \E p \in TokenReqs : TokenGrantDeleted(p)

SpecTokens == InitTokens /\ [][NextTokens]_vars

----------------------------------------------------------------------------
\* Properties of the redeemer and the token endpoint.

InvalidGrant == oauth_error("oat", "invalid_grant")

\* The token requests that presented the authorization code of Grant g.
Presented(g) ==
  { p \in TokenReqs : tok[p].params.code = g.id \o << "|" >> \o g.code }

\* The number of '|' in a string.
Delims(str) == Cardinality({ i \in 1..Len(str) : str[i] = "|" })

\* The lookup of request p has returned a stored Grant.
Found(p) == tok[p].grant # NoGrant

\* The Grant the lookup of p returned has the client id and the secret part
\* that p presented.
OtherwiseCorrect(p) ==
  /\ tok[p].grant.client_id = tok[p].client_id
  /\ tok[p].grant.code = tok[p].id_code[2]

\* C1: for any Grant and any interleaving of the lookups and deletes of the
\* attempts that present its authorization code, two Tokens are never issued
\* for that code: at most one attempt is answered with a Token.
C1_NoDoubleIssuance ==
  \A g \in issued :
    Cardinality({ p \in Presented(g) : tok[p].resp.kind = "token" }) <= 1

\* C2: a redemption attempt that starts after a redemption of the same
\* authorization code has returned a Token never gets past the lookup (the
\* destroyed Grant does not satisfy it), and is answered invalid_grant once
\* the lookup has returned.
C2_DestroyedNeverRedeemed ==
  \A p \in TokenReqs :
    tok[p].late =>
      /\ tok[p].redeemer \in {"lookup", "invalid", "lost"}
      /\ ~Found(p)
      /\ tok[p].resp.kind # "token"
      /\ tok[p].redeemer = "invalid" => tok[p].resp = InvalidGrant

\* C2's case: a late attempt, after the lookup, answered invalid_grant.
C2_Witness ==
  \E p \in TokenReqs :
    /\ tok[p].late
    /\ tok[p].pc = "done"
    /\ tok[p].resp = InvalidGrant
    /\ \E q \in TokenReqs \ {p} :
         tok[q].resp.kind = "token" /\ tok[q].params.code = tok[p].params.code

\* C3 as stated: with a correct code and client, a Grant issued at T is
\* rejected with invalid_grant, and no delete is issued, whenever the
\* lookup's callback reads a clock now >= T + 60s.
C3_RejectedFromSixtySeconds ==
  \A p \in TokenReqs :
    (Found(p) /\ OtherwiseCorrect(p) /\ tok[p].at >= tok[p].grant.time + 60000) =>
      /\ tok[p].redeemer = "invalid"
      /\ tok[p].resp = InvalidGrant
      /\ "Grant.delete" \notin tok[p].ops

\* C3 as amended: with a correct code and client, a Grant issued at T is
\* rejected exactly when now > T + 60s, then with invalid_grant and without
\* a delete; for T <= now <= T + 60s the delete is issued.
C3_RejectedAfterSixtySeconds ==
  \A p \in TokenReqs :
    (Found(p) /\ OtherwiseCorrect(p)) =>
      /\ tok[p].at >= tok[p].grant.time
      /\ (tok[p].at > tok[p].grant.time + 60000) <=> (tok[p].redeemer = "invalid")
      /\ (tok[p].at > tok[p].grant.time + 60000) =>
           /\ tok[p].resp = InvalidGrant
           /\ "Grant.delete" \notin tok[p].ops
      /\ (tok[p].at <= tok[p].grant.time + 60000) => "Grant.delete" \in tok[p].ops

\* C3's case: a correct code and client, presented after the window.
C3_Witness ==
  \E p \in TokenReqs :
    /\ Found(p) /\ OtherwiseCorrect(p)
    /\ tok[p].at > tok[p].grant.time + 60000
    /\ tok[p].resp = InvalidGrant
    /\ tok[p].grant \in grants

\* C4: when the authenticated client's id differs from the client_id of the
\* Grant the lookup returned, the attempt is answered invalid_grant, no Token
\* is produced and no delete is issued, also when the secret part matches
\* and the Grant is fresh.
C4_OtherClientRejected ==
  \A p \in TokenReqs :
    (Found(p) /\ tok[p].grant.client_id # tok[p].client_id) =>
      /\ tok[p].redeemer = "invalid"
      /\ tok[p].resp = InvalidGrant
      /\ "Grant.delete" \notin tok[p].ops

\* C4's case: the exact code of a fresh Grant, presented by another client.
C4_Witness ==
  \E p \in TokenReqs :
    /\ Found(p)
    /\ tok[p].grant.client_id # tok[p].client_id
    /\ tok[p].params.code = tok[p].grant.id \o << "|" >> \o tok[p].grant.code
    /\ tok[p].at < tok[p].grant.time + 60000
    /\ tok[p].resp = InvalidGrant
    /\ tok[p].grant \in grants

\* C5: a code that does not hold exactly one '|' makes the redeemer call
\* callback(null), answered invalid_grant, never the fallback, without any
\* operation on the Grant store.
C5_MalformedCodeInvalid ==
  \A p \in TokenReqs :
    (tok[p].redeemer # "none" /\ Delims(tok[p].params.code) # 1) =>
      /\ tok[p].redeemer = "invalid"
      /\ tok[p].resp = InvalidGrant
      /\ tok[p].ops = {"Client.get"}

\* C5's case: the redeemer was given a code with two delimiters.
C5_Witness ==
  \E p \in TokenReqs :
    /\ tok[p].redeemer = "invalid"
    /\ Delims(tok[p].params.code) = 2
    /\ \E g \in grants : g.id = tok[p].id_code[1] /\ g.code = tok[p].id_code[2]

----------------------------------------------------------------------------
\* Properties of the token endpoint's synchronous checks.

\* Request p has every mandatory field and grant_type authorization_code.
PassesFieldChecks(p) ==
  /\ tok[p].pc # "idle"
  /\ tok[p].form = "ok"
  /\ tok[p].params.grant_type # << >>
  /\ tok[p].params.client_id # << >>
  /\ tok[p].params.code # << >>
  /\ tok[p].params.redirect_uri # << >>
  /\ tok[p].params.grant_type = << "authorization_code" >>

\* C6: a token request that passes the mandatory-field and grant_type checks
\* and gives the secret by both the Authorization header and the
\* client_secret field (equal or not), or by neither, is answered
\* invalid_request, and no store operation is issued for it.
C6_SecretExactlyOnce ==
  \A p \in TokenReqs :
    (/\ PassesFieldChecks(p)
     /\ (tok[p].header # << >>) <=> (tok[p].params.client_secret # << >>)) =>
      /\ tok[p].pc = "done"
      /\ tok[p].resp = oauth_error("oat", "invalid_request")
      /\ tok[p].ops = {}
      /\ tok[p].redeemer = "none"

\* C6's case: the header and the field carry the same, correct secret.
C6_Witness ==
  \E p \in TokenReqs :
    /\ PassesFieldChecks(p)
    /\ tok[p].header = << "B", "a", "s", "i", "c", " " >> \o tok[p].params.client_secret
    /\ tok[p].params.client_secret = ClientGet(tok[p].params.client_id).secret
    /\ tok[p].params.client_secret # << >>
    /\ tok[p].resp = oauth_error("oat", "invalid_request")

\* The five checks of the token endpoint, as the fields, the header and the
\* Client store decide them for request p.
FieldMissing(p) ==
  \/ tok[p].params.grant_type = << >>
  \/ tok[p].params.client_id = << >>
  \/ tok[p].params.code = << >>
  \/ tok[p].params.redirect_uri = << >>

WrongGrantType(p) == tok[p].params.grant_type # << "authorization_code" >>

SecretTwiceOrNever(p) ==
  (tok[p].header # << >>) <=> (tok[p].params.client_secret # << >>)

\* The secret given: the header without its first six characters, or the
\* client_secret field.
SecretGiven(p) ==
  IF tok[p].header # << >>
  THEN SubSeq(tok[p].header, 7, Len(tok[p].header))
  ELSE tok[p].params.client_secret

ClientUnknownOrSecretWrong(p) ==
  \A c \in Clients : c.id = tok[p].params.client_id => c.secret # SecretGiven(p)

RedirectUriWrong(p) ==
  \A c \in Clients :
    c.id = tok[p].params.client_id => c.redirect_uri # tok[p].params.redirect_uri

\* The Client lookup of request p has returned (it did not fail).
ClientLookupReturned(p) ==
  /\ tok[p].pc \notin {"idle", "client_get"}
  /\ ~(tok[p].resp = unknown_error /\ tok[p].redeemer = "none")

\* The response of request p is the 400 error eid and the redeemer was not
\* called; ops are the store operations issued for p.
AnsweredOnly(p, eid, ops) ==
  /\ tok[p].pc = "done"
  /\ tok[p].resp = oauth_error("oat", eid)
  /\ tok[p].resp.status = 400
  /\ tok[p].ops = ops
  /\ tok[p].redeemer = "none"

\* C15: the token endpoint's checks are applied in a fixed order and the
\* first failing one alone gives the response: a missing mandatory field
\* invalid_request, then another grant_type unsupported_grant_type, then the
\* secret given twice or never invalid_request, then (once the Client lookup
\* has returned) an unknown client or a wrong secret invalid_client, then
\* another redirect_uri than the stored one invalid_grant; the redeemer is
\* called only for a request that passes all five.
C15_FirstFailureDecides ==
  \A p \in TokenReqs :
    (tok[p].pc # "idle" /\ tok[p].form = "ok") =>
      IF FieldMissing(p) THEN AnsweredOnly(p, "invalid_request", {})
      ELSE IF WrongGrantType(p) THEN AnsweredOnly(p, "unsupported_grant_type", {})
      ELSE IF SecretTwiceOrNever(p) THEN AnsweredOnly(p, "invalid_request", {})
      ELSE IF ClientUnknownOrSecretWrong(p)
        THEN /\ tok[p].redeemer = "none"
             /\ ClientLookupReturned(p) => AnsweredOnly(p, "invalid_client", {"Client.get"})
      ELSE IF RedirectUriWrong(p)
        THEN /\ tok[p].redeemer = "none"
             /\ ClientLookupReturned(p) => AnsweredOnly(p, "invalid_grant", {"Client.get"})
      ELSE ClientLookupReturned(p) => tok[p].redeemer # "none"

\* C15's case: a request that fails the first check and the second one
\* (grant_type is missing, hence also not authorization_code) and the fifth
\* one, answered by the first.
C15_Witness ==
  \E p \in TokenReqs :
    /\ tok[p].pc = "done" /\ tok[p].form = "ok"
    /\ tok[p].params.grant_type = << >>
    /\ tok[p].params.client_id # << >>
    /\ tok[p].params.code # << >>
    /\ tok[p].params.redirect_uri # << >>
    /\ RedirectUriWrong(p)
    /\ tok[p].resp = oauth_error("oat", "invalid_request")

----------------------------------------------------------------------------
\* Properties of the authorization endpoint and the issuer.

\* Request a has every mandatory field and a recognized response_type.
ValidEua(a) ==
  /\ az[a].pc # "idle"
  /\ az[a].params.client_id # << >>
  /\ az[a].params.redirect_uri # << >>
  /\ az[a].params.response_type \in { <<"token">>, <<"code">>, <<"code_and_token">> }

\* The Client lookup of request a has returned (it did not fail).
LookupReturned(a) ==
  /\ az[a].pc = "done"
  /\ az[a].ops = {"Client.get"}
  /\ az[a].out[Len(az[a].out)] # unknown_error

\* The client named by request a is registered.
KnownClient(a) == \E c \in Clients : c.id = az[a].params.client_id

\* The login flow was not invoked for request a, and no Grant was created
\* for the client id it names.
NoLoginNoGrant(a) ==
  /\ az[a].login = NoClientData
  /\ \A i \in 1..Len(az[a].out) : az[a].out[i] # LoginInvoked
  /\ \A s \in SendGrantSlots : sg[s].client_data.client_id # az[a].params.client_id
  /\ \A g \in issued : g.client_id # az[a].params.client_id

\* C7 as stated: for every valid request (recognized response_type) with an
\* unknown client_id, the response is invalid_client, the login flow is not
\* invoked and no Grant is created.
C7_UnknownClientAnyType ==
  \A a \in AuthzReqs :
    (ValidEua(a) /\ ~KnownClient(a) /\ LookupReturned(a)) =>
      /\ az[a].out[1] = oauth_error("eua", "invalid_client")
      /\ NoLoginNoGrant(a)

\* C7 as amended: for every valid request with an unknown client_id, the
\* login flow is not invoked and no Grant is created; with response_type
\* code the response is invalid_client, and with token or code_and_token the
\* response is the not-implemented one, invalid_client being written after.
C7_UnknownClient ==
  \A a \in AuthzReqs :
    (ValidEua(a) /\ ~KnownClient(a) /\ LookupReturned(a)) =>
      /\ NoLoginNoGrant(a)
      /\ az[a].out[Len(az[a].out)] = oauth_error("eua", "invalid_client")
      /\ az[a].params.response_type = <<"code">> =>
           az[a].out = << oauth_error("eua", "invalid_client") >>
      /\ az[a].params.response_type # <<"code">> =>
           az[a].out = << NotImplemented, oauth_error("eua", "invalid_client") >>

\* C7's case: response_type code and a client_id the store does not hold.
C7_Witness ==
  \E a \in AuthzReqs :
    /\ ValidEua(a) /\ ~KnownClient(a) /\ LookupReturned(a)
    /\ az[a].params.response_type = <<"code">>
    /\ az[a].out = << oauth_error("eua", "invalid_client") >>

\* C8 as stated: for every valid request naming a registered client with
\* another redirect_uri than the stored one, the response is
\* redirect_uri_mismatch and the login flow is not invoked.
C8_UriMismatchAnyType ==
  \A a \in AuthzReqs :
    (/\ ValidEua(a) /\ KnownClient(a) /\ LookupReturned(a)
     /\ az[a].params.redirect_uri # ClientGet(az[a].params.client_id).redirect_uri) =>
      /\ az[a].out[1] = oauth_error("eua", "redirect_uri_mismatch")
      /\ az[a].login = NoClientData

\* C8 as amended: for every such request the login flow is not invoked; with
\* response_type code the response is redirect_uri_mismatch, and with token
\* or code_and_token the response is the not-implemented one,
\* redirect_uri_mismatch being written after.
C8_UriMismatch ==
  \A a \in AuthzReqs :
    (/\ ValidEua(a) /\ KnownClient(a) /\ LookupReturned(a)
     /\ az[a].params.redirect_uri # ClientGet(az[a].params.client_id).redirect_uri) =>
      /\ az[a].login = NoClientData
      /\ \A i \in 1..Len(az[a].out) : az[a].out[i] # LoginInvoked
      /\ az[a].out[Len(az[a].out)] = oauth_error("eua", "redirect_uri_mismatch")
      /\ az[a].params.response_type = <<"code">> =>
           az[a].out = << oauth_error("eua", "redirect_uri_mismatch") >>
      /\ az[a].params.response_type # <<"code">> =>
           az[a].out = << NotImplemented, oauth_error("eua", "redirect_uri_mismatch") >>

\* C8's case: response_type code, a registered client, another client's
\* redirect_uri.
C8_Witness ==
  \E a \in AuthzReqs :
    /\ ValidEua(a) /\ KnownClient(a) /\ LookupReturned(a)
    /\ az[a].params.response_type = <<"code">>
    /\ az[a].params.redirect_uri \in RedirectUris
    /\ az[a].out = << oauth_error("eua", "redirect_uri_mismatch") >>

\* C9: a request with response_type token or code_and_token gets the
\* not-implemented response and nothing more: no Client lookup is issued,
\* the login flow is not invoked and no second response is written.
C9_StopsAfterNotImplemented ==
  \A a \in AuthzReqs :
    (ValidEua(a) /\ az[a].params.response_type # <<"code">>) =>
      /\ az[a].out = << NotImplemented >>
      /\ az[a].ops = {}
      /\ az[a].login = NoClientData

\* C10: a redirect is sent only for a Grant the store has saved, and carries
\* exactly that Grant's id + "|" + code; when the save failed the answer is
\* the unknown error, and no redirect is sent.
C10_RedirectAfterSave ==
  \A s \in SendGrantSlots :
    /\ sg[s].out.kind = "redirect" =>
         /\ sg[s].grant \in issued
         /\ sg[s].grant.id # << >>
         /\ sg[s].out.code = sg[s].grant.id \o << "|" >> \o sg[s].grant.code
         /\ sg[s].out.uri = sg[s].client_data.redirect_uri
    /\ (sg[s].pc = "done" /\ sg[s].grant \notin issued) =>
         /\ sg[s].out = SendGrantError
         /\ sg[s].out.code = << >>
    /\ sg[s].pc \in {"idle", "saving", "saved"} => sg[s].out = NoRedirect

\* C10's case: the save completed and the redirect was sent.
C10_Witness ==
  \E s \in SendGrantSlots :
    /\ sg[s].pc = "done"
    /\ sg[s].out.kind = "redirect"
    /\ sg[s].grant \in grants

----------------------------------------------------------------------------
\* Properties of the whole flow.

\* Request p names the client of Grant g, with that client's stored secret
\* given once (by the field) and that client's stored redirect_uri.
Rightful(p, g) ==
  /\ tok[p].pc # "idle"
  /\ tok[p].form = "ok"
  /\ tok[p].params.grant_type = << "authorization_code" >>
  /\ tok[p].params.client_id = g.client_id
  /\ tok[p].header = << >>
  /\ \E c \in Clients :
       /\ c.id = g.client_id
       /\ tok[p].params.client_secret = c.secret
       /\ tok[p].params.redirect_uri = c.redirect_uri

\* Every store operation request p issued has completed, and p is answered.
StoreServed(p) ==
  /\ tok[p].pc = "done"
  /\ tok[p].resp.kind # "unknown_error"

\* C11: the code the issuer sent for a Grant of (U, C), presented by one
\* request only, that request being C's with C's secret given once and C's
\* redirect_uri, the lookup running no later than 60s after the Grant was
\* created and the store serving the request, is answered with status 200 and
\* the Token user_id + ',' + client_id of (U, C); and every code sent splits
\* on '|' into exactly the Grant's id and the Grant's code.
C11_HappyPath ==
  /\ \A g \in issued : \A p \in TokenReqs :
       (/\ Presented(g) = {p}
        /\ Rightful(p, g)
        /\ StoreServed(p)
        /\ tok[p].at <= g.time + 60000) =>
         /\ tok[p].resp.status = 200
         /\ tok[p].resp.kind = "token"
         /\ tok[p].resp.token = g.user_id \o << "," >> \o g.client_id
  /\ \A s \in SendGrantSlots :
       sg[s].out.kind = "redirect" =>
         Split(sg[s].out.code, "|") = << sg[s].grant.id, sg[s].grant.code >>

\* C11's case: the code was sent, another request presented a forgery of it
\* and was rejected, and the rightful request got the Token at the last
\* instant of the window.
C11_Witness ==
  \E g \in issued : \E p \in TokenReqs :
    /\ Presented(g) = {p}
    /\ Rightful(p, g)
    /\ StoreServed(p)
    /\ tok[p].at = g.time + 60000
    /\ tok[p].resp.status = 200
    /\ \E s \in SendGrantSlots : sg[s].out.code = tok[p].params.code
    /\ \E q \in TokenReqs \ {p} : tok[q].redeemer = "invalid"

----------------------------------------------------------------------------
\* Properties of the failure paths.

\* C12: whenever a Grant store operation of a redemption fails, the lookup
\* as well as the delete, the redeemer calls fallback and the request is
\* answered with the unknown error: neither invalid_grant nor a Token.
C12_StoreFailureReported ==
  [][ \A p \in TokenReqs :
        (TokenGrantGetFailed(p) \/ TokenGrantDeleteFailed(p)) =>
          /\ tok'[p].redeemer = "fallback"
          /\ tok'[p].resp = unknown_error ]_vars

\* C13: every token request is eventually answered (a Token, a 400 error
\* or the unknown error), provided every store operation it issues
\* eventually completes or fails.
C13_EveryRequestAnswered ==
  \A p \in TokenReqs : (tok[p].pc # "idle") ~> (tok[p].resp # NoResp)

----------------------------------------------------------------------------
\* Properties of the Grant store's contents.

\* The redeemer was called for request p with a code it has to reject: not
\* exactly one '|', or the lookup returned no Grant, an expired one, one of
\* another client or one with another code.
RejectedCase(p) ==
  /\ tok[p].redeemer \in {"invalid", "delete", "token", "fallback"}
  /\ \/ Delims(tok[p].params.code) # 1
     \/ tok[p].grant = NoGrant
     \/ tok[p].at > tok[p].grant.time + 60000
     \/ tok[p].grant.client_id # tok[p].client_id
     \/ tok[p].grant.code # tok[p].id_code[2]

\* C14: every step of a redemption attempt that has to be rejected (malformed
\* code, unknown id, expired Grant, other client, other code) leaves the
\* Grant store as it is and issues no delete, and the attempt ends with
\* callback(null).
C14_RejectedKeepsStore ==
  [][ \A p \in TokenReqs :
        (tok'[p] # tok[p] /\ RejectedCase(p)') =>
          /\ grants' = grants
          /\ "Grant.delete" \notin tok'[p].ops
          /\ tok'[p].redeemer = "invalid" ]_vars

\* C14's case: an attempt by another client with the Grant's exact code was
\* rejected, and later the rightful client redeemed the same Grant.
C14_Witness ==
  \E p \in TokenReqs : \E q \in TokenReqs \ {p} :
    /\ tok[q].redeemer = "invalid"
    /\ Found(q)
    /\ tok[q].grant.client_id # tok[q].client_id
    /\ tok[q].grant.code = tok[q].id_code[2]
    /\ tok[p].redeemer = "token"
    /\ tok[p].grant = tok[q].grant
    /\ tok[q].at < tok[p].at
    /\ tok[p].grant \notin grants

\* C16: a request is answered with a Token only by the callback of a delete
\* that completed, so that the Grant it was given for is no longer stored;
\* when the delete failed the redeemer has called fallback, and the answer is
\* the unknown error, without Token and not with status 200.
C16_TokenAfterDelete ==
  \A p \in TokenReqs :
    /\ tok[p].resp.kind = "token" =>
         /\ tok[p].redeemer = "token"
         /\ "Grant.delete" \in tok[p].ops
         /\ \A g \in grants : g.id # tok[p].grant.id
    /\ tok[p].redeemer = "token" => tok[p].resp.status = 200
    /\ tok[p].redeemer = "delete" => tok[p].resp = NoResp
    /\ tok[p].redeemer = "fallback" =>
         /\ "Grant.delete" \in tok[p].ops
         /\ tok[p].resp = unknown_error
         /\ tok[p].resp.status # 200
         /\ tok[p].resp.token = << >>

\* C16's case: the delete of one attempt failed and left the Grant stored;
\* the delete of another attempt completed and that one got the Token.
C16_Witness ==
  \E p \in TokenReqs : \E q \in TokenReqs \ {p} :
    /\ tok[p].redeemer = "fallback"
    /\ tok[p].resp = unknown_error
    /\ tok[q].resp.kind = "token"
    /\ tok[q].grant = tok[p].grant
    /\ tok[q].grant \notin grants

\* Request p names the client of Grant g, gives that client's stored secret
\* by exactly one of the header and the field, gives that client's stored
\* redirect_uri, and presents g's id + '|' + g's code.
RightfulFor(p, g) ==
  /\ tok[p].params.client_id = g.client_id
  /\ ~SecretTwiceOrNever(p)
  /\ ~ClientUnknownOrSecretWrong(p)
  /\ ~RedirectUriWrong(p)
  /\ tok[p].params.code = g.id \o << "|" >> \o g.code

\* C17: a stored Grant leaves the store, or is altered in it, only in a step
\* of a token request that names the Grant's client_id, gives that client's
\* stored secret exactly once and its stored redirect_uri, presents the
\* Grant's exact id and code, and whose lookup ran within the window; no
\* step of the authorization endpoint and no step of any other token
\* request removes or alters a Grant.
C17_OnlyRightfulRemoves ==
  [][ \A g \in grants :
        g \notin grants' =>
          /\ az' = az
          /\ \E p \in TokenReqs :
               /\ tok'[p] # tok[p]
               /\ RightfulFor(p, g)
               /\ tok[p].grant = g
               /\ g.time <= tok[p].at
               /\ tok[p].at <= g.time + 60000 ]_vars

\* C17's case: after an authorization request was answered and the issuer
\* stored a Grant, a request giving the secret by the header removed it.
C17_Witness ==
  \E g \in issued : \E p \in TokenReqs :
    /\ g \notin grants
    /\ RightfulFor(p, g)
    /\ tok[p].header # << >>
    /\ tok[p].resp.kind = "token"
    /\ \E a \in AuthzReqs : az[a].pc = "done" /\ az[a].login.client_id = g.client_id

----------------------------------------------------------------------------
\* Properties of the Token.

\* C18: every access token returned is user_id + ',' + client_id of a Grant
\* the issuer created before, and that client_id is the one the request
\* named and authenticated with the stored secret; no token is returned for
\* a pair that was never granted.
C18_TokenOfGrantedPair ==
  \A p \in TokenReqs :
    tok[p].resp.kind = "token" =>
      /\ ~ClientUnknownOrSecretWrong(p)
      /\ \E c \in Clients : c.id = tok[p].params.client_id
      /\ \E g \in issued :
           /\ g.client_id = tok[p].params.client_id
           /\ tok[p].resp.token = g.user_id \o << "," >> \o g.client_id

\* C18's case: a Token was returned for a Grant of client B, to B
\* authenticated by its secret, while the request's lookup saw the Grant.
C18_Witness ==
  \E p \in TokenReqs :
    /\ tok[p].resp.kind = "token"
    /\ tok[p].resp.status = 200
    /\ tok[p].params.client_id = << "B" >>
    /\ tok[p].params.client_secret = << "y" >>
    /\ tok[p].grant \in issued
    /\ tok[p].grant \notin grants

\* C19: two Tokens that are equal were built from the same user id and the
\* same client id, also when the ids contain ','.
C19_TokenBindsPair ==
  \A p \in TokenReqs : \A q \in TokenReqs :
    (/\ tok[p].resp.kind = "token"
     /\ tok[q].resp.kind = "token"
     /\ tok[p].resp.token = tok[q].resp.token) =>
      /\ tok[p].grant.user_id = tok[q].grant.user_id
      /\ tok[p].grant.client_id = tok[q].grant.client_id

====
